---- MODULE Spec2Model ----
(***************************************************************************)
(* Portfolio/CV API (src/main.py, src/schemas.py): FastAPI route handlers  *)
(* over two MongoDB collections, cv and project.                           *)
(*                                                                         *)
(* Strings that the code inspects character by character (path ids, the    *)
(* rendering of an ObjectId) are sequences of one-character strings.       *)
(* Documents and request bodies are functions from field names to values.  *)
(* An Optional value is None or Some(x).                                   *)
(***************************************************************************)
EXTENDS Integers, Sequences, FiniteSets, TLC

VARIABLES
    db,        \* the process-wide store handle: "None" or "Database"
    cv,        \* collection cv: documents in natural (insertion) order
    project,   \* collection project: documents in natural order
    nextOid,   \* counter of the store's identifier generator
    clock,     \* source of creation timestamps
    threads,   \* requests in flight that have made their first store call and
               \* have their find_one still to make
    resp,      \* the request that completed last, with its response
    hist,      \* history kept for the properties
    ser        \* one call of serialize on its own (pure-function specification)

vars == <<db, cv, project, nextOid, clock, threads, resp, hist, ser>>

(***************************************************************************)
(* Bounds of the model                                                     *)
(***************************************************************************)
MaxInserts == 2      \* documents inserted in one behaviour
MaxLimit == 1        \* largest explicit ?limit= of the request-level specs
MaxThreads == 1      \* requests in flight between their two store calls
MaxListDocs == 51    \* projects stored in the listing specification
MaxListLimit == 52   \* largest ?limit= of the listing specification

(***************************************************************************)
(* Program constants                                                       *)
(***************************************************************************)
DefaultLimit == 50   \* list_projects(limit: int = 50)
OidStrLen == 24      \* ObjectId accepts only str of length 24
OidBytes == 12       \* bytes of a store-assigned ObjectId

None == [none |-> TRUE]
Some(x) == [some |-> x]

Rep(c, n) == [i \in 1..n |-> c]

(***************************************************************************)
(* Mappings (Python dict)                                                  *)
(***************************************************************************)
Put(d, k, v) == [x \in DOMAIN d \cup {k} |-> IF x = k THEN v ELSE d[x]]
Drop(d, k) == [x \in DOMAIN d \ {k} |-> d[x]]
\* MongoDB $set: the fields of e replace or extend those of d.
SetFields(d, e) == [x \in DOMAIN d \cup DOMAIN e |-> IF x \in DOMAIN e THEN e[x] ELSE d[x]]

(***************************************************************************)
(* bson.ObjectId(str) and str(ObjectId)                                    *)
(***************************************************************************)
HexChars == <<"0","1","2","3","4","5","6","7","8","9","a","b","c","d","e","f">>
\* The characters bytes.fromhex skips: space, \t, \n, \r, \f and \v (the last
\* one written as the character itself).
Whitespace == {" ", "\t", "\n", "\r", "\f", ""}

\* int(c, 16) for the characters that are hex digits, either case.
HexTable ==
    [c \in {HexChars[i] : i \in 1..16} \cup {"A", "B", "C", "D", "E", "F"} |->
        CASE c = "A" -> 10 [] c = "B" -> 11 [] c = "C" -> 12
          [] c = "D" -> 13 [] c = "E" -> 14 [] c = "F" -> 15
          [] OTHER -> (CHOOSE i \in 1..16 : HexChars[i] = c) - 1]

IsHex(c) == c \in DOMAIN HexTable
HexVal(c) == HexTable[c]

\* bytes.fromhex: pairs of hex digits, whitespace skipped between pairs.
RECURSIVE FromHexAt(_, _, _)
FromHexAt(s, i, acc) ==
    IF i > Len(s) THEN [ok |-> TRUE, bytes |-> acc]
    ELSE IF s[i] \in Whitespace THEN FromHexAt(s, i + 1, acc)
    ELSE IF i + 1 <= Len(s) /\ IsHex(s[i]) /\ IsHex(s[i + 1])
         THEN FromHexAt(s, i + 2, Append(acc, 16 * HexVal(s[i]) + HexVal(s[i + 1])))
    ELSE [ok |-> FALSE, bytes |-> <<>>]

FromHex(s) == FromHexAt(s, 1, <<>>)

\* A Python value that may sit under "_id": tag and content.
PyObjectId(b) == [t |-> "ObjectId", v |-> b]
PyNone == [t |-> "NoneType"]
PyInt(n) == [t |-> "int", n |-> n]
PyStr(s) == [t |-> "str", s |-> s]

\* ObjectId(id_str): InvalidId unless len 24 and bytes.fromhex succeeds.
ObjectIdOf(id_str) ==
    LET h == FromHex(id_str)
    IN  IF Len(id_str) = OidStrLen /\ h.ok
        THEN [ok |-> TRUE, oid |-> PyObjectId(h.bytes)]
        ELSE [ok |-> FALSE, oid |-> PyNone]

RECURSIVE Hexlify(_)
Hexlify(b) ==
    IF b = <<>> THEN <<>>
    ELSE <<HexChars[(b[1] \div 16) + 1], HexChars[(b[1] % 16) + 1]>> \o Hexlify(Tail(b))

Digit(n) == HexChars[n + 1]

\* bool(x) and str(x) for the values above (ints of one digit).
Truthy(x) ==
    CASE x.t = "ObjectId" -> TRUE
      [] x.t = "NoneType" -> FALSE
      [] x.t = "int" -> x.n # 0
      [] x.t = "str" -> x.s # <<>>

Str(x) ==
    CASE x.t = "ObjectId" -> Hexlify(x.v)
      [] x.t = "NoneType" -> <<"N","o","n","e">>
      [] x.t = "int" -> <<Digit(x.n)>>
      [] x.t = "str" -> x.s

\* The identifier the store's generator hands out for its n-th insert.
NewObjectId(n) == PyObjectId(Rep(0, OidBytes - 1) \o <<160 + n>>)

(***************************************************************************)
(* Path ids the model sends: the ids the store hands out, one of them in   *)
(* upper case, a well-formed id the store never hands out, and strings     *)
(* that are not 24 hex digits, one of them hex pairs with whitespace        *)
(* between them.                                                           *)
(***************************************************************************)
NotAnId == <<"n","o","t","-","a","n","-","i","d">>
\* Eight hex pairs, each followed by a whitespace character: 24 characters.
Separators == <<" ", "\t", "\n", "\r", "\f", "", " ", "\t">>
SpacedId == [i \in 1..OidStrLen |-> IF i % 3 = 0 THEN Separators[i \div 3] ELSE "a"]
UpperId(n) == [i \in 1..OidStrLen |-> IF i = OidStrLen - 1 THEN "A" ELSE Str(NewObjectId(n))[i]]

IdInputs ==
    { Str(NewObjectId(n)) : n \in 1..MaxInserts }
    \cup { UpperId(1), Rep("f", OidStrLen) }
    \cup { NotAnId, Rep("a", OidStrLen - 1), Rep("g", OidStrLen), SpacedId }

\* ObjectIdOf, computed once for the ids above.
ObjectIdTable == [s \in IdInputs |-> ObjectIdOf(s)]

ObjectId(id_str) ==
    IF id_str \in IdInputs THEN ObjectIdTable[id_str] ELSE ObjectIdOf(id_str)

\* to_object_id: the ObjectId, or HTTPException(400) (ok = FALSE).
to_object_id(id_str) == ObjectId(id_str)

(***************************************************************************)
(* serialize                                                               *)
(***************************************************************************)
\* doc.get("_id"): the value, or None when the key is absent.
DictGetId(doc) == IF "_id" \in DOMAIN doc THEN doc["_id"] ELSE PyNone

serialize_keep_id(doc) ==
    IF Truthy(DictGetId(doc)) THEN Put(doc, "id", Str(doc["_id"])) ELSE doc

serialize(doc) ==
    IF Truthy(DictGetId(doc))
    THEN Put(Drop(doc, "_id"), "id", Str(doc["_id"]))
    ELSE doc

(***************************************************************************)
(* Schemas (src/schemas.py): required fields, and the defaults that        *)
(* model_dump() fills in for fields the body leaves out.  Unknown fields   *)
(* of a body are ignored.                                                  *)
(***************************************************************************)
CvFields == {"name", "title", "summary", "location", "email", "phone",
             "skills", "experience", "education", "website", "avatar_url"}
CvRequired == {"name", "title"}
CvListFields == {"skills", "experience", "education"}

ProjectFields == {"title", "description", "tech_stack", "url", "repo_url",
                  "image_url", "featured"}
ProjectRequired == {"title"}

Cv == [fields |-> CvFields, required |-> CvRequired]
Project == [fields |-> ProjectFields, required |-> ProjectRequired]

FieldDefault(f) ==
    CASE f \in CvListFields \cup {"tech_stack"} -> <<>>
      [] f = "featured" -> FALSE
      [] OTHER -> None

\* FastAPI validates the body against the schema before the handler runs.
Validates(schema, body) == schema.required \subseteq DOMAIN body

model_dump(schema, body) ==
    [f \in schema.fields |-> IF f \in DOMAIN body THEN body[f] ELSE FieldDefault(f)]

(***************************************************************************)
(* The store: pymongo calls on one collection (a sequence of documents)    *)
(***************************************************************************)
Ids(coll) == {coll[i]["_id"] : i \in 1..Len(coll)}
Matching(coll, oid) == {i \in 1..Len(coll) : coll[i]["_id"] = oid}
FirstMatch(coll, oid) == CHOOSE i \in Matching(coll, oid) : \A j \in Matching(coll, oid) : i <= j

\* collection.find_one({"_id": oid})
find_one(coll, oid) ==
    IF Matching(coll, oid) = {} THEN None ELSE Some(coll[FirstMatch(coll, oid)])

update_one_upsert(coll, oid, fields) ==
    IF Matching(coll, oid) = {}
    THEN [matched_count |-> 0, coll |-> Append(coll, Put(fields, "_id", oid))]
    ELSE [matched_count |-> 1,
          coll |-> [coll EXCEPT ![FirstMatch(coll, oid)] = SetFields(@, fields)]]

update_one_replace(coll, oid, fields) ==
    IF Matching(coll, oid) = {}
    THEN [matched_count |-> 0, coll |-> coll]
    ELSE [matched_count |-> 1,
          coll |-> [coll EXCEPT ![FirstMatch(coll, oid)] = Put(fields, "_id", oid)]]

\* collection.update_one({"_id": oid}, {"$set": fields})
update_one(coll, oid, fields) ==
    IF Matching(coll, oid) = {}
    THEN [matched_count |-> 0, coll |-> coll]
    ELSE [matched_count |-> 1,
          coll |-> [coll EXCEPT ![FirstMatch(coll, oid)] = SetFields(@, fields)]]

Remove(coll, i) == SubSeq(coll, 1, i - 1) \o SubSeq(coll, i + 1, Len(coll))

\* collection.delete_one({"_id": oid})
delete_one(coll, oid) ==
    IF Matching(coll, oid) = {}
    THEN [deleted_count |-> 0, coll |-> coll]
    ELSE [deleted_count |-> 1, coll |-> Remove(coll, FirstMatch(coll, oid))]

\* database.create_document: stamps the creation time, inserts, and returns
\* str(inserted_id); fails when there is no connection.
create_document(d, coll, data, n, now) ==
    IF d = "None"
    THEN [ok |-> FALSE, id |-> <<>>, coll |-> coll]
    ELSE [ok |-> TRUE, id |-> Str(NewObjectId(n)),
          coll |-> Append(coll, Put(Put(data, "created_at", now), "_id", NewObjectId(n)))]

Take(s, n) == SubSeq(s, 1, IF n < Len(s) THEN n ELSE Len(s))

\* database.get_documents(collection, {}, limit): up to limit documents in
\* natural order; fails when there is no connection.
get_documents(d, coll, limit) ==
    IF d = "None" THEN [ok |-> FALSE, docs |-> <<>>] ELSE [ok |-> TRUE, docs |-> Take(coll, limit)]

\* cursor.sort("created_at", -1).limit(1): the documents whose created_at is
\* largest; the server may return any one of them.
Oldest(coll) == {i \in 1..Len(coll) : \A j \in 1..Len(coll) : coll[i]["created_at"] <= coll[j]["created_at"]}

Latest(coll) == {i \in 1..Len(coll) : \A j \in 1..Len(coll) : coll[i]["created_at"] >= coll[j]["created_at"]}

\* A driver call made with an ObjectId that is not 12 bytes long (ObjectId
\* takes any 24-character str that bytes.fromhex reads): the filter matches
\* nothing, or the call fails, depending on the BSON encoder in use.
DriverOutcomes(id_str) ==
    IF ObjectId(id_str).ok /\ Len(ObjectId(id_str).oid.v) # OidBytes
    THEN {"nomatch", "error"} ELSE {"nomatch"}
DriverFails(oid, drv) == Len(oid.v) # OidBytes /\ drv = "error"

(***************************************************************************)
(* Responses                                                               *)
(***************************************************************************)
Result(status, exc, kind, body, coll) ==
    [status |-> status, exc |-> exc, kind |-> kind, body |-> body, coll |-> coll]

HTTPError(status, coll) == Result(status, "HTTPException", "error", <<>>, coll)
Fault(exc, coll) == Result(500, exc, "error", <<>>, coll)
ReturnDoc(doc, coll) == Result(200, "", "doc", <<doc>>, coll)
Deleted(id_str, coll) == Result(200, "", "deleted", <<[status |-> "deleted", id |-> id_str]>>, coll)

\* serialize(x) where x is what find_one returned: dict(None) raises TypeError.
ReturnSerialized(found, coll) ==
    IF found = None THEN Fault("TypeError", coll) ELSE ReturnDoc(serialize(found.some), coll)


\* The handler has made its first store call and goes on to find_one.
Continue(oid, coll) == Result(0, "", "pending", <<oid>>, coll)

(***************************************************************************)
(* Route handlers (src/main.py).  The handlers are plain functions, which  *)
(* the server runs in a thread pool: each store call is a step of its own, *)
(* and other requests run between the two store calls of one handler.      *)
(* Each operator below is a handler up to and including its first store    *)
(* call; it gives the response, or Continue when the handler goes on to    *)
(* find_one, and the collection as that store call leaves it.              *)
(* find_and_return is the rest of the four handlers that go on.            *)
(***************************************************************************)
SortPickAsc(coll) == Oldest(coll)

\* db.cv.find().sort("created_at", -1).limit(1): positions it may yield.
SortPick(coll) == Latest(coll)

\* GET /api/cv; i is the position the sorted, limited cursor yields.
get_cv(d, coll, i) ==
    IF d = "None" THEN HTTPError(500, coll)
    ELSE IF coll = <<>> THEN Result(200, "", "null", <<>>, coll)
    ELSE ReturnDoc(serialize(coll[i]), coll)

\* POST /api/cv: inserted_id = create_document("cv", payload)
create_cv(d, coll, payload, n, now) ==
    LET ins == create_document(d, coll, model_dump(Cv, payload), n, now)
    IN  IF ~ins.ok THEN Fault("StoreUnavailable", coll)
        ELSE Continue(ObjectId(ins.id).oid, ins.coll)

\* PUT /api/cv/{cv_id}, through update_one
update_cv(d, coll, cv_id, payload, drv) ==
    IF d = "None" THEN HTTPError(500, coll)
    ELSE IF ~to_object_id(cv_id).ok THEN HTTPError(400, coll)
    ELSE LET oid == to_object_id(cv_id).oid
             result == update_one(coll, oid, model_dump(Cv, payload))
         IN  IF DriverFails(oid, drv) THEN Fault("DriverError", coll)
             ELSE IF result.matched_count = 0 THEN HTTPError(404, result.coll)
             ELSE Continue(oid, result.coll)

\* DELETE /api/cv/{cv_id}
delete_cv(d, coll, cv_id, drv) ==
    IF d = "None" THEN HTTPError(500, coll)
    ELSE IF ~to_object_id(cv_id).ok THEN HTTPError(400, coll)
    ELSE LET oid == to_object_id(cv_id).oid
             result == delete_one(coll, oid)
         IN  IF DriverFails(oid, drv) THEN Fault("DriverError", coll)
             ELSE IF result.deleted_count = 0 THEN HTTPError(404, result.coll)
             ELSE Deleted(cv_id, result.coll)

list_projects_all(d, coll, limit) ==
    LET got == get_documents(d, coll, Len(coll))
    IN  IF ~got.ok THEN Fault("StoreUnavailable", coll)
        ELSE Result(200, "", "list", [i \in 1..Len(got.docs) |-> serialize(got.docs[i])], coll)

\* GET /api/projects?limit=N; limit is None when the parameter is absent.
list_projects(d, coll, limit) ==
    LET got == get_documents(d, coll, IF limit = None THEN DefaultLimit ELSE limit.some)
    IN  IF ~got.ok THEN Fault("StoreUnavailable", coll)
        ELSE Result(200, "", "list", [i \in 1..Len(got.docs) |-> serialize(got.docs[i])], coll)

\* POST /api/projects: inserted_id = create_document("project", payload)
create_project(d, coll, payload, n, now) ==
    LET ins == create_document(d, coll, model_dump(Project, payload), n, now)
    IN  IF ~ins.ok THEN Fault("StoreUnavailable", coll)
        ELSE Continue(ObjectId(ins.id).oid, ins.coll)

\* PUT /api/projects/{project_id}, through update_one: no db guard, db.project
\* on None raises.
update_project(d, coll, project_id, payload, drv) ==
    IF ~to_object_id(project_id).ok THEN HTTPError(400, coll)
    ELSE IF d = "None" THEN Fault("AttributeError", coll)
    ELSE LET oid == to_object_id(project_id).oid
             result == update_one(coll, oid, model_dump(Project, payload))
         IN  IF DriverFails(oid, drv) THEN Fault("DriverError", coll)
             ELSE IF result.matched_count = 0 THEN HTTPError(404, result.coll)
             ELSE Continue(oid, result.coll)

\* DELETE /api/projects/{project_id}
delete_project(d, coll, project_id, drv) ==
    IF ~to_object_id(project_id).ok THEN HTTPError(400, coll)
    ELSE IF d = "None" THEN Fault("AttributeError", coll)
    ELSE LET oid == to_object_id(project_id).oid
             result == delete_one(coll, oid)
         IN  IF DriverFails(oid, drv) THEN Fault("DriverError", coll)
             ELSE IF result.deleted_count = 0 THEN HTTPError(404, result.coll)
             ELSE Deleted(project_id, result.coll)

\* The last two lines of create_cv, update_cv, create_project and
\* update_project: serialize(db[...].find_one({"_id": oid})).
find_and_return(coll, oid) == ReturnSerialized(find_one(coll, oid), coll)

(***************************************************************************)
(* Requests the model sends                                                *)
(***************************************************************************)
CvBodies ==
    { [name |-> "Ann", title |-> "Dev"],
      [name |-> "Bob", title |-> "Ops", summary |-> Some("s"), skills |-> <<"tla">>,
       nickname |-> "b"],
      [title |-> "Dev"] }

ProjectBodies ==
    { [title |-> "X"],
      [title |-> "Y", tech_stack |-> <<"py">>, featured |-> TRUE],
      [featured |-> TRUE] }

LimitInputs == {None} \cup {Some(n) : n \in 0..MaxLimit}

(***************************************************************************)
(* State                                                                   *)
(***************************************************************************)
Response(op, id, payload, limit, r) ==
    [op |-> op, id |-> id, payload |-> payload, limit |-> limit,
     status |-> r.status, exc |-> r.exc, kind |-> r.kind, body |-> r.body]

Invalid(op, id, payload) ==
    [op |-> op, id |-> id, payload |-> Some(payload), limit |-> None,
     status |-> 422, exc |-> "RequestValidationError", kind |-> "error", body |-> <<>>]

NoResponse ==
    [op |-> "", id |-> <<>>, payload |-> None, limit |-> None,
     status |-> 0, exc |-> "", kind |-> "init", body |-> <<>>]

\* A request between its first store call and its find_one.
Pending(op, id, payload, oid) == [op |-> op, id |-> id, payload |-> payload, oid |-> oid]

NoHistory == [lastPost |-> None, deleted |-> {}, assigned |-> {}, lastPut |-> {}, wrote |-> FALSE]

NoSerialize == [called |-> FALSE, arg |-> <<>>, argAfter |-> <<>>, once |-> <<>>, twice |-> <<>>]

Init ==
    /\ db \in {"None", "Database"}
    /\ cv = <<>>
    /\ project = <<>>
    /\ nextOid = 0
    /\ clock = 0
    /\ threads = <<>>
    /\ resp = NoResponse
    /\ hist = NoHistory
    /\ ser = NoSerialize

(***************************************************************************)
(* History kept for the properties:                                        *)
(*   lastPost  the POST /api/cv whose insert ran last, while no update_one *)
(*             or delete_one has touched its document;                     *)
(*   deleted   the ids whose DELETE answered 200;                          *)
(*   assigned  the identifier the store assigned at each insert;           *)
(*   lastPut   per stored document, the fields of the update_one that ran  *)
(*             last on it;                                                 *)
(*   wrote     whether the request that completed last had changed the     *)
(*             store.                                                      *)
(***************************************************************************)
Creates == {"create_cv", "create_project"}
Updates == {"update_cv", "update_project"}
Deletes == {"delete_cv", "delete_project"}
CvRoutes == {"get_cv", "create_cv", "update_cv", "delete_cv"}
CollOf(op) == IF op \in CvRoutes THEN "cv" ELSE "project"
SchemaOf(op) == IF op \in CvRoutes THEN Cv ELSE Project

LastPutAfter(h, op, oid, fields) ==
    {e \in h.lastPut : ~(e.coll = CollOf(op) /\ e.oid = oid)}
        \cup {[coll |-> CollOf(op), oid |-> oid, fields |-> fields]}

\* The history after the first store call of a request: r is what the
\* handler gave, coll the collection before the call.
HistAfter(h, op, id, payload, r, coll) ==
    LET going == r.kind = "pending"
        oid == IF going THEN r.body[1] ELSE ObjectId(id).oid
        hit == \/ op = "update_cv" /\ going
               \/ op = "delete_cv" /\ r.status = 200
    IN  [ lastPost |->
            IF op = "create_cv" /\ going
            THEN Some([id |-> Str(oid), payload |-> payload])
            ELSE IF hit /\ h.lastPost # None /\ ObjectId(h.lastPost.some.id).oid = oid
                 THEN None
                 ELSE h.lastPost,
          deleted |->
            IF op \in Deletes /\ r.status = 200
            THEN h.deleted \cup {[coll |-> CollOf(op), oid |-> oid]}
            ELSE h.deleted,
          assigned |->
            IF op \in Creates /\ going
            THEN h.assigned \cup {[created_at |-> r.coll[Len(r.coll)]["created_at"],
                                   id |-> Str(oid)]}
            ELSE h.assigned,
          lastPut |->
            IF op \in Updates /\ going
            THEN LastPutAfter(h, op, oid, model_dump(SchemaOf(op), payload))
            ELSE IF op \in Deletes /\ r.status = 200
                 THEN {e \in h.lastPut : ~(e.coll = CollOf(op) /\ e.oid = oid)}
                 ELSE h.lastPut,
          wrote |-> IF going THEN h.wrote ELSE r.coll # coll ]

(***************************************************************************)
(* One action per route: the handler through its first store call.  A      *)
(* handler that goes on to find_one waits in threads for FindAndReturn.    *)
(* A body that fails validation is answered 422 before the handler runs.   *)
(***************************************************************************)
Going(r) == r.kind = "pending"

GetCv ==
    \E i \in (IF cv = <<>> THEN {0} ELSE SortPick(cv)) :
        LET r == get_cv(db, cv, i)
        IN  /\ resp' = Response("get_cv", <<>>, None, None, r)
            /\ cv' = r.coll
            /\ hist' = [hist EXCEPT !.wrote = FALSE]
            /\ UNCHANGED <<db, project, nextOid, clock, threads, ser>>

CreateCv ==
    \E payload \in CvBodies :
        /\ nextOid < MaxInserts
        /\ IF ~Validates(Cv, payload)
           THEN /\ resp' = Invalid("create_cv", <<>>, payload)
                /\ hist' = [hist EXCEPT !.wrote = FALSE]
                /\ UNCHANGED <<cv, nextOid, clock, threads>>
           ELSE LET r == create_cv(db, cv, payload, nextOid + 1, clock + 1)
                IN  /\ Going(r) => Len(threads) < MaxThreads
                    /\ cv' = r.coll
                    /\ nextOid' = IF Going(r) THEN nextOid + 1 ELSE nextOid
                    /\ clock' = IF Going(r) THEN clock + 1 ELSE clock
                    /\ hist' = HistAfter(hist, "create_cv", <<>>, payload, r, cv)
                    /\ IF Going(r)
                       THEN /\ threads' = Append(threads,
                                   Pending("create_cv", <<>>, payload, r.body[1]))
                            /\ UNCHANGED resp
                       ELSE /\ resp' = Response("create_cv", <<>>, Some(payload), None, r)
                            /\ UNCHANGED threads
        /\ UNCHANGED <<db, project, ser>>

UpdateCv ==
    \E cv_id \in IdInputs, payload \in CvBodies : \E drv \in DriverOutcomes(cv_id) :
        /\ IF ~Validates(Cv, payload)
           THEN /\ resp' = Invalid("update_cv", cv_id, payload)
                /\ hist' = [hist EXCEPT !.wrote = FALSE]
                /\ UNCHANGED <<cv, threads>>
           ELSE LET r == update_cv(db, cv, cv_id, payload, drv)
                IN  /\ Going(r) => Len(threads) < MaxThreads
                    /\ cv' = r.coll
                    /\ hist' = HistAfter(hist, "update_cv", cv_id, payload, r, cv)
                    /\ IF Going(r)
                       THEN /\ threads' = Append(threads,
                                   Pending("update_cv", cv_id, payload, r.body[1]))
                            /\ UNCHANGED resp
                       ELSE /\ resp' = Response("update_cv", cv_id, Some(payload), None, r)
                            /\ UNCHANGED threads
        /\ UNCHANGED <<db, project, nextOid, clock, ser>>

DeleteCv ==
    \E cv_id \in IdInputs : \E drv \in DriverOutcomes(cv_id) :
        LET r == delete_cv(db, cv, cv_id, drv)
        IN  /\ resp' = Response("delete_cv", cv_id, None, None, r)
            /\ cv' = r.coll
            /\ hist' = HistAfter(hist, "delete_cv", cv_id, None, r, cv)
            /\ UNCHANGED <<db, project, nextOid, clock, threads, ser>>

ListProjects(limits) ==
    \E limit \in limits :
        LET r == list_projects(db, project, limit)
        IN  /\ resp' = Response("list_projects", <<>>, None, limit, r)
            /\ project' = r.coll
            /\ hist' = [hist EXCEPT !.wrote = FALSE]
            /\ UNCHANGED <<db, cv, nextOid, clock, threads, ser>>

CreateProject ==
    \E payload \in ProjectBodies :
        /\ nextOid < MaxInserts
        /\ IF ~Validates(Project, payload)
           THEN /\ resp' = Invalid("create_project", <<>>, payload)
                /\ hist' = [hist EXCEPT !.wrote = FALSE]
                /\ UNCHANGED <<project, nextOid, clock, threads>>
           ELSE LET r == create_project(db, project, payload, nextOid + 1, clock + 1)
                IN  /\ Going(r) => Len(threads) < MaxThreads
                    /\ project' = r.coll
                    /\ nextOid' = IF Going(r) THEN nextOid + 1 ELSE nextOid
                    /\ clock' = IF Going(r) THEN clock + 1 ELSE clock
                    /\ hist' = HistAfter(hist, "create_project", <<>>, payload, r, project)
                    /\ IF Going(r)
                       THEN /\ threads' = Append(threads,
                                   Pending("create_project", <<>>, payload, r.body[1]))
                            /\ UNCHANGED resp
                       ELSE /\ resp' = Response("create_project", <<>>, Some(payload), None, r)
                            /\ UNCHANGED threads
        /\ UNCHANGED <<db, cv, ser>>

UpdateProject ==
    \E project_id \in IdInputs, payload \in ProjectBodies : \E drv \in DriverOutcomes(project_id) :
        /\ IF ~Validates(Project, payload)
           THEN /\ resp' = Invalid("update_project", project_id, payload)
                /\ hist' = [hist EXCEPT !.wrote = FALSE]
                /\ UNCHANGED <<project, threads>>
           ELSE LET r == update_project(db, project, project_id, payload, drv)
                IN  /\ Going(r) => Len(threads) < MaxThreads
                    /\ project' = r.coll
                    /\ hist' = HistAfter(hist, "update_project", project_id, payload, r, project)
                    /\ IF Going(r)
                       THEN /\ threads' = Append(threads,
                                   Pending("update_project", project_id, payload, r.body[1]))
                            /\ UNCHANGED resp
                       ELSE /\ resp' = Response("update_project", project_id, Some(payload), None, r)
                            /\ UNCHANGED threads
        /\ UNCHANGED <<db, cv, nextOid, clock, ser>>

DeleteProject ==
    \E project_id \in IdInputs : \E drv \in DriverOutcomes(project_id) :
        LET r == delete_project(db, project, project_id, drv)
        IN  /\ resp' = Response("delete_project", project_id, None, None, r)
            /\ project' = r.coll
            /\ hist' = HistAfter(hist, "delete_project", project_id, None, r, project)
            /\ UNCHANGED <<db, cv, nextOid, clock, threads, ser>>

\* The rest of a handler that went on: find_one, serialize, return.
FindAndReturn ==
    \E t \in 1..Len(threads) :
        LET th == threads[t]
            r == find_and_return(IF CollOf(th.op) = "cv" THEN cv ELSE project, th.oid)
        IN  /\ resp' = Response(th.op, th.id, Some(th.payload), None, r)
            /\ threads' = Remove(threads, t)
            /\ hist' = [hist EXCEPT !.wrote = TRUE]
            /\ UNCHANGED <<db, cv, project, nextOid, clock, ser>>

Next ==
    \/ GetCv
    \/ CreateCv
    \/ UpdateCv
    \/ DeleteCv
    \/ ListProjects(LimitInputs)
    \/ CreateProject
    \/ UpdateProject
    \/ DeleteProject
    \/ FindAndReturn

Spec == Init /\ [][Next]_vars

(***************************************************************************)
(* Properties of the routes (Spec)                                         *)
(***************************************************************************)
IdRoutes == Updates \cup Deletes
StoreRoutes == CvRoutes \cup {"list_projects", "create_project", "update_project", "delete_project"}
Collection(op) == IF op \in CvRoutes THEN cv ELSE project

\* The body of the request, where one is required, passed validation.
BodyValid(r) == r.payload = None \/ Validates(SchemaOf(r.op), r.payload.some)

\* A well-formed identifier: 24 characters, each a hex digit.
WellFormedId(s) == Len(s) = OidStrLen /\ \A i \in 1..Len(s) : IsHex(s[i])

\* C1 as claimed, in the states where the store is available: an id that
\* is not 24 hex digits gets 400 on the four id-keyed routes.  (With db None
\* the cv routes answer 500 from their db guard before the id is read, and
\* the project routes fail on db.project once the id is accepted.)
C1_MalformedId400 ==
    (db = "Database" /\ resp.op \in IdRoutes /\ BodyValid(resp) /\ ~WellFormedId(resp.id))
        => resp.status = 400

\* C2: with the store available, a PUT or DELETE whose store call finds no
\* document under its well-formed id (threads is then left as it is: the
\* handler does not go on) answers 404 and changes nothing; an id whose
\* DELETE answered 200 is such an id for every request that starts later.
C2_AbsentId404 ==
    [][ (/\ db = "Database" /\ threads' = threads /\ resp'.op \in IdRoutes
         /\ BodyValid(resp') /\ WellFormedId(resp'.id))
        => /\ (ObjectId(resp'.id).oid \notin Ids(Collection(resp'.op)))
                => (resp'.status = 404 /\ cv' = cv /\ project' = project)
           /\ ([coll |-> CollOf(resp'.op), oid |-> ObjectId(resp'.id).oid] \in hist.deleted)
                => resp'.status = 404 ]_vars

C2_Witness ==
    /\ resp.op = "update_project" /\ resp.status = 404
    /\ [coll |-> "project", oid |-> ObjectId(resp.id).oid] \in hist.deleted
    /\ project # <<>>

\* C3: a GET /api/cv (a step that answers with threads left as it is)
\* returns null when the collection is empty; when the CV that the last POST
\* created (the one inserted last) has not been updated or deleted since, it
\* returns that CV: the payload's fields and the id the store assigned to it
\* and the POST returns, a 24-character hex string.
C3_GetLatestCv ==
    [][ (threads' = threads /\ resp'.op = "get_cv" /\ db = "Database") =>
          /\ resp'.status = 200
          /\ (cv = <<>>) => resp'.kind = "null"
          /\ (hist.lastPost # None) =>
                /\ resp'.kind = "doc"
                /\ resp'.body[1]["id"] = hist.lastPost.some.id
                /\ WellFormedId(resp'.body[1]["id"])
                /\ \A f \in DOMAIN hist.lastPost.some.payload \cap CvFields :
                      resp'.body[1][f] = hist.lastPost.some.payload[f] ]_vars

C3_Witness ==
    /\ resp.op = "get_cv" /\ resp.kind = "doc" /\ Len(cv) >= 2
    /\ hist.lastPost # None
    /\ resp.body[1]["name"] # cv[1]["name"]

\* The request whose first store call the step made, when it goes on.
Started(ths) == ths[Len(ths)]

\* C4 as claimed: the update_one of a PUT leaves every field the body does
\* not mention as it was, and every other document unchanged.
C4_UnmentionedFieldsKept ==
    [][ (Len(threads') > Len(threads) /\ Started(threads').op \in Updates) =>
          LET th == Started(threads')
              old == Collection(th.op)
              new == IF th.op \in CvRoutes THEN cv' ELSE project'
          IN  /\ Len(new) = Len(old)
              /\ \A i \in 1..Len(old) :
                    IF old[i]["_id"] = th.oid
                    THEN \A f \in DOMAIN old[i] \ DOMAIN th.payload :
                            f \in DOMAIN new[i] /\ new[i][f] = old[i][f]
                    ELSE new[i] = old[i] ]_vars

\* C4 amended: the update_one of a PUT that matched sets every schema field
\* of the document: a field the body supplies takes the body's value, a
\* field the body omits is reset to its schema default; the fields outside
\* the schema (_id, created_at) keep their values and every other document
\* is unchanged.
C4_SchemaFieldsReplaced ==
    [][ (Len(threads') > Len(threads) /\ Started(threads').op \in Updates) =>
          LET th == Started(threads')
              old == Collection(th.op)
              new == IF th.op \in CvRoutes THEN cv' ELSE project'
              body == th.payload
              schema == SchemaOf(th.op)
          IN  /\ Len(new) = Len(old)
              /\ (th.op \in CvRoutes) => project' = project
              /\ (th.op \notin CvRoutes) => cv' = cv
              /\ \E i \in 1..Len(old) : old[i]["_id"] = th.oid
              /\ \A i \in 1..Len(old) :
                    IF old[i]["_id"] = th.oid
                    THEN /\ DOMAIN new[i] = DOMAIN old[i]
                         /\ \A f \in DOMAIN old[i] \ schema.fields : new[i][f] = old[i][f]
                         /\ \A f \in schema.fields \cap DOMAIN body : new[i][f] = body[f]
                         /\ \A f \in schema.fields \ DOMAIN body : new[i][f] = FieldDefault(f)
                    ELSE new[i] = old[i] ]_vars

\* The POST of a CV answered with skills ["tla"]; the update_one of a PUT
\* whose body has no skills has run on that CV, and the stored CV has none.
C4_Witness ==
    /\ resp.op = "create_cv" /\ resp.status = 200
    /\ resp.body[1]["skills"] = <<"tla">>
    /\ threads # <<>>
    /\ Started(threads).op = "update_cv"
    /\ "skills" \notin DOMAIN Started(threads).payload
    /\ Started(threads).oid = ObjectId(resp.body[1]["id"]).oid
    /\ \E i \in 1..Len(cv) :
          cv[i]["_id"] = Started(threads).oid /\ cv[i]["skills"] = <<>>

\* C6 as claimed: with db None every store-touching route answers with an
\* HTTPException of status 500 raised by the handler.
C6_NoStoreExplicit500 ==
    (db = "None" /\ resp.op \in StoreRoutes /\ BodyValid(resp)) =>
        (resp.status = 500 /\ resp.exc = "HTTPException")

\* C7: every document a route returns has the key id, a 24-character hex
\* string, and no key _id; the id is the one the store assigned when the
\* document was inserted, in every response for that document.
C7_IdExposed ==
    (resp.kind \in {"doc", "list"}) =>
        \A i \in 1..Len(resp.body) :
            LET d == resp.body[i]
            IN  /\ "id" \in DOMAIN d
                /\ "_id" \notin DOMAIN d
                /\ WellFormedId(d["id"])
                /\ \E e \in hist.assigned : e.created_at = d["created_at"] /\ e.id = d["id"]

C7_Witness ==
    /\ resp.op = "update_project" /\ resp.status = 200 /\ resp.kind = "doc"
    /\ resp.id = UpperId(1)
    /\ resp.body[1]["id"] = Str(NewObjectId(1))

\* C9 as claimed: a request that ends with an error status has not changed
\* the store; only requests that respond 200 write.
C9_ErrorsWriteNothing ==
    [][ (Len(threads') <= Len(threads) /\ resp'.status # 200) =>
            (cv' = cv /\ project' = project /\ ~hist'.wrote) ]_vars

\* C10 as claimed: a PUT ends with 404, its update having matched nothing,
\* or with 200 and the document of that id, never with a fault; and a stored
\* document holds exactly the payload of the update_one that ran last on it.
C10_PutUnderRaces ==
    /\ (resp.op \in Updates /\ db = "Database" /\ BodyValid(resp) /\ WellFormedId(resp.id)) =>
          \/ resp.status = 404 /\ ~hist.wrote
          \/ /\ resp.status = 200 /\ resp.kind = "doc"
             /\ resp.body[1]["id"] = Str(ObjectId(resp.id).oid)
    /\ \A e \in hist.lastPut :
          LET coll == IF e.coll = "cv" THEN cv ELSE project
          IN  \A i \in 1..Len(coll) :
                (e.oid = coll[i]["_id"]) => \A f \in DOMAIN e.fields : coll[i][f] = e.fields[f]

(***************************************************************************)
(* Listing specification: a store that holds up to MaxListDocs projects,   *)
(* and GET /api/projects with and without ?limit=                          *)
(***************************************************************************)
\* The collection after n POSTs of {"title": "X"}.
Seeded(n) ==
    [i \in 1..n |->
        create_document("Database", <<>>, model_dump(Project, [title |-> "X"]), i, i).coll[1]]

\* Collections of a few documents, and of about DefaultLimit documents.
SeedSizes == {n \in 0..MaxListDocs : n <= 2 \/ n >= MaxListDocs - 2}

ListLimits == {None} \cup {Some(n) : n \in 0..MaxListLimit}

InitList ==
    /\ db = "Database"
    /\ cv = <<>>
    /\ \E n \in SeedSizes : project = Seeded(n) /\ nextOid = n /\ clock = n
    /\ threads = <<>>
    /\ resp = NoResponse
    /\ hist = NoHistory
    /\ ser = NoSerialize

NextList == ListProjects(ListLimits)

SpecList == InitList /\ [][NextList]_vars

\* C5: GET /api/projects?limit=N returns a list of at most N documents
\* (none for N = 0), and at most 50 without the parameter.
C5_AtMostLimit ==
    (resp.op = "list_projects" /\ db = "Database") =>
        /\ resp.status = 200 /\ resp.kind = "list"
        /\ (resp.limit # None) => Len(resp.body) <= resp.limit.some
        /\ (resp.limit = None) => Len(resp.body) <= 50

C5_Witness ==
    /\ resp.op = "list_projects" /\ resp.limit = None
    /\ Len(project) > DefaultLimit /\ Len(resp.body) = DefaultLimit

(***************************************************************************)
(* serialize on its own: one call on a mapping drawn from SerializeInputs  *)
(***************************************************************************)
SerializeIds ==
    { PyObjectId(NewObjectId(1).v), PyObjectId(NewObjectId(2).v), PyNone,
      PyInt(0), PyInt(7), PyStr(<<>>), PyStr(<<"x">>) }

SerializeInputs ==
    LET plain == { [title |-> t, featured |-> b] : t \in {"X", "Y"}, b \in BOOLEAN }
        withId == plain \cup { Put(d, "id", <<"o", "l", "d">>) : d \in plain }
    IN  withId \cup { Put(d, "_id", x) : d \in withId, x \in SerializeIds }

InitSerialize ==
    /\ db = "Database"
    /\ cv = <<>>
    /\ project = <<>>
    /\ nextOid = 0
    /\ clock = 0
    /\ threads = <<>>
    /\ resp = NoResponse
    /\ hist = NoHistory
    /\ \E d \in SerializeInputs : ser = [NoSerialize EXCEPT !.arg = <<d>>]

\* x = serialize(doc); y = serialize(x).  serialize works on dict(doc), a
\* copy, so the caller's mapping is afterwards what it was.
Serialize ==
    /\ ~ser.called
    /\ ser' = [called |-> TRUE, arg |-> ser.arg, argAfter |-> ser.arg,
               once |-> <<serialize(ser.arg[1])>>,
               twice |-> <<serialize(serialize(ser.arg[1]))>>]
    /\ UNCHANGED <<db, cv, project, nextOid, clock, threads, resp, hist>>

SpecSerialize == InitSerialize /\ [][Serialize]_vars

\* C8 as claimed: serialize(serialize(d)) = serialize(d); serialize(d) = d
\* for d without _id; for d with _id the result has no _id, has id =
\* str(d["_id"]) and d's other fields; the argument is not modified.
C8_SerializeContract ==
    ser.called =>
        LET d == ser.arg[1]
            out == ser.once[1]
        IN  /\ ser.twice = ser.once
            /\ ser.argAfter = ser.arg
            /\ ("_id" \notin DOMAIN d) => out = d
            /\ ("_id" \in DOMAIN d) =>
                  /\ "_id" \notin DOMAIN out
                  /\ "id" \in DOMAIN out
                  /\ out["id"] = Str(d["_id"])
                  /\ \A f \in DOMAIN d \ {"_id", "id"} : f \in DOMAIN out /\ out[f] = d[f]

====
